---- MODULE Spec2Model ----
(***************************************************************************)
(* Model of the smarthome emulator module: the IndexedDB storage service   *)
(* (RomStorageService) and the session controller (EmulatorComponent).     *)
(* Asynchronous methods are split at their suspension points (await,       *)
(* setTimeout); everything between two suspension points is one step.      *)
(* Strings that the code inspects (file names, ROM names, extensions) are  *)
(* sequences of one-character strings.                                     *)
(***************************************************************************)
EXTENDS Integers, Sequences, FiniteSets, TLC

\* ------------------------------------------------------------------ bounds
\* number of storage-service calls issued in one behaviour of Spec
MaxCalls == 3
\* ROM identifiers the callers of the storage service pass
MaxRomId == 2
\* save-state slots the callers pass
MaxSlot == 2
\* play requests in one behaviour of SpecSession
MaxPlays == 2
\* records of a library in SpecCatalog
MaxCatalog == 4
\* files of one ingestion batch
MaxBatch == 3
\* ingestion batches in one behaviour of SpecIngest
MaxBatches == 1
\* addRom calls in one behaviour of SpecDetect
MaxDetects == 1
\* storage-service calls in one behaviour of SpecOverlap
MaxOverlap == 3

\* ------------------------------------------------------------ string model
UpperChars == <<"A","B","C","D","E","F","G","H","I","J","K","L","M",
                "N","O","P","Q","R","S","T","U","V","W","X","Y","Z">>
LowerChars == <<"a","b","c","d","e","f","g","h","i","j","k","l","m",
                "n","o","p","q","r","s","t","u","v","w","x","y","z">>

\* String.prototype.toLowerCase, one character
LowerChar(c) ==
  IF \E i \in 1..Len(UpperChars) : UpperChars[i] = c
  THEN LowerChars[CHOOSE i \in 1..Len(UpperChars) : UpperChars[i] = c]
  ELSE c

\* a conversion that leaves the letter case as it is
KeepCase(s) == s

\* String.prototype.toLowerCase
ToLowerCase(s) == [i \in 1..Len(s) |-> LowerChar(s[i])]

\* positions of the dots of s
DotsOf(s) == {i \in 1..Len(s) : s[i] = "."}

\* fileName.split('.').pop(): the text after the last dot, the whole string
\* when it has no dot
LastSegment(s) ==
  IF DotsOf(s) = {} THEN s
  ELSE LET d == CHOOSE i \in DotsOf(s) : \A j \in DotsOf(s) : j <= i
       IN  SubSeq(s, d + 1, Len(s))

\* file.name.replace(/\.[^/.]+$/, ''): a final ".xyz" with a non-empty xyz
\* holding neither "/" nor "." is removed
StripExtension(s) ==
  IF DotsOf(s) = {} THEN s
  ELSE LET d  == CHOOSE i \in DotsOf(s) : \A j \in DotsOf(s) : j <= i
           ex == SubSeq(s, d + 1, Len(s))
       IN  IF Len(ex) > 0 /\ \A i \in 1..Len(ex) : ex[i] # "/"
           THEN SubSeq(s, 1, d - 1)
           ELSE s

\* ------------------------------------------------------------- SYSTEM_INFO
\* the keys of SYSTEM_INFO in declaration order (the order of Object.entries)
SystemOrder ==
  <<"nes", "snes", "gb", "gbc", "gba", "n64", "nds", "psx", "segaMD",
    "segaMS", "segaGG", "segaCD", "segaSaturn", "atari2600", "atari7800">>

SystemTypes == {SystemOrder[i] : i \in 1..Len(SystemOrder)}

SYSTEM_INFO ==
  [s \in SystemTypes |->
    CASE s = "nes"  -> [core |-> "nes",  extensions |-> << <<".","n","e","s">> >>]
      [] s = "snes" -> [core |-> "snes", extensions |-> << <<".","s","m","c">>, <<".","s","f","c">> >>]
      [] s = "gb"   -> [core |-> "gb",   extensions |-> << <<".","g","b">> >>]
      [] s = "gbc"  -> [core |-> "gb",   extensions |-> << <<".","g","b","c">> >>]
      [] s = "gba"  -> [core |-> "gba",  extensions |-> << <<".","g","b","a">> >>]
      [] s = "n64"  -> [core |-> "n64",  extensions |-> << <<".","n","6","4">>, <<".","z","6","4">>, <<".","v","6","4">> >>]
      [] s = "nds"  -> [core |-> "nds",  extensions |-> << <<".","n","d","s">> >>]
      [] s = "psx"  -> [core |-> "psx",  extensions |-> << <<".","b","i","n">>, <<".","i","s","o">>, <<".","c","u","e">>, <<".","i","m","g">> >>]
      [] s = "segaMD" -> [core |-> "segaMD", extensions |-> << <<".","m","d">>, <<".","g","e","n">>, <<".","b","i","n">> >>]
      [] s = "segaMS" -> [core |-> "segaMS", extensions |-> << <<".","s","m","s">> >>]
      [] s = "segaGG" -> [core |-> "segaGG", extensions |-> << <<".","g","g">> >>]
      [] s = "segaCD" -> [core |-> "segaCD", extensions |-> << <<".","i","s","o">>, <<".","b","i","n">>, <<".","c","u","e">> >>]
      [] s = "segaSaturn" -> [core |-> "segaSaturn", extensions |-> << <<".","i","s","o">>, <<".","b","i","n">>, <<".","c","u","e">> >>]
      [] s = "atari2600" -> [core |-> "atari2600", extensions |-> << <<".","a","2","6">> >>]
      [] s = "atari7800" -> [core |-> "atari7800", extensions |-> << <<".","a","7","8">> >>]]

\* Array.prototype.includes on an extension list
Includes(list, x) == \E i \in 1..Len(list) : list[i] = x

\* the value detectSystem returns for "no system" (null)
NoSystem == "null"

\* a detectSystem whose loop does not return at the first match: the last
\* system that lists the extension wins
detectSystemLast(fileName) ==
  LET ext  == <<".">> \o ToLowerCase(LastSegment(fileName))
      hits == {i \in 1..Len(SystemOrder) :
                 Includes(SYSTEM_INFO[SystemOrder[i]].extensions, ext)}
  IN  IF hits = {} THEN NoSystem
      ELSE SystemOrder[CHOOSE i \in hits : \A j \in hits : j <= i]

\* RomStorageService.detectSystem
detectSystem(fileName) ==
  LET ext  == <<".">> \o ToLowerCase(LastSegment(fileName))
      hits == {i \in 1..Len(SystemOrder) :
                 Includes(SYSTEM_INFO[SystemOrder[i]].extensions, ext)}
  IN  IF hits = {} THEN NoSystem
      ELSE SystemOrder[CHOOSE i \in hits : \A j \in hits : i <= j]


\* ---------------------------------------------------------------- inputs
\* ROM identifiers and slots the callers of the storage service pass
RomIds == 1..MaxRomId
Slots == 1..MaxSlot

\* save-state payloads (ArrayBuffer contents) with the screenshot that comes
\* with each; "undefined" is a call without the optional screenshot
SaveInputs == {[data |-> "stateA", screenshot |-> "undefined"],
               [data |-> "stateB", screenshot |-> "shotB"]}

\* files handed to addRom: the name and the bytes file.arrayBuffer() yields
FileSet == {[name |-> <<"a", ".", "n", "e", "s">>, bytes |-> "bytesA"],
            [name |-> <<"b", ".", "x", "y", "z">>, bytes |-> "bytesB"]}

\* the optional system argument of addRom: absent, a SystemType, and a tag
\* that is no key of SYSTEM_INFO (the type is erased at run time)
ExplicitSystems == {"undefined", "gbc", "dreamcast"}

\* ----------------------------------------------------------------- state
VARIABLES
  db,        \* RomStorageService.db is set (the connection is open)
  roms,      \* object store 'roms': a set of GameRom records, keyed by id
  saves,     \* object store 'saves': a set of SaveState records, keyed by id
  romKey,    \* key generator of 'roms' (the last identifier it gave)
  saveKey,   \* key generator of 'saves'
  clock,     \* the time new Date() reads
  calls,     \* the storage-service call each caller has in flight
  nCalls,    \* storage-service calls issued so far
  \* EmulatorComponent and the page it lives in
  isPlaying,     \* EmulatorComponent.isPlaying
  currentRom,    \* EmulatorComponent.currentRom (NoRom is null)
  currentRomUrl, \* EmulatorComponent.currentRomUrl (0 is null)
  error,         \* EmulatorComponent.error
  win,           \* window.EJS_player, EJS_core, EJS_gameUrl, EJS_gameName
  emulator,      \* window.EJS_emulator is set
  scripts,       \* loader.js script elements in the document
  blobs,         \* object URLs created and not revoked, with their bytes
  urlKey,        \* object URLs created so far
  timers,        \* pending setTimeout(() => initEmulator(rom), 100) calls
  plays,         \* the rom of each playRom waiting for updateLastPlayed
  nPlays,        \* play requests so far
  thrown,        \* the handler whose last run ended in an exception
  destroyed,     \* ngOnDestroy has run
  compRoms,       \* EmulatorComponent.roms, an array
  filteredRoms,   \* EmulatorComponent.filteredRoms, an array
  selectedSystem, \* EmulatorComponent.selectedSystem
  searchTerm,     \* EmulatorComponent.searchTerm
  loading,        \* EmulatorComponent.loading
  batch,          \* the addFiles in progress: its files, its loop, its step
  adding,         \* per caller, the file of the batch whose addRom it runs
  outcome,        \* how the addRom of each file of the batch ended
  nBatches        \* addFiles calls so far

storeVars == <<db, roms, saves, romKey, saveKey>>
sessVars == <<isPlaying, currentRom, currentRomUrl, win, emulator, scripts,
              blobs, urlKey, timers, plays, nPlays, thrown, destroyed>>
catVars == <<compRoms, filteredRoms, selectedSystem, searchTerm, loading>>
ingestVars == <<batch, adding, outcome, nBatches>>
uiVars == <<sessVars, error, catVars, ingestVars>>
vars == <<db, roms, saves, romKey, saveKey, clock, calls, nCalls, uiVars>>

\* a GameRom that stands for "undefined" (no record)
NoRom == [id |-> 0, name |-> <<>>, fileName |-> <<>>, system |-> NoSystem,
          data |-> "none", dateAdded |-> 0, lastPlayed |-> 0]

NoFile == [name |-> <<>>, bytes |-> "none"]

\* a caller with no call in flight
IdleCall == [op |-> "none", pc |-> "idle", id |-> 0, slot |-> 0,
             data |-> "none", screenshot |-> "undefined", scan |-> <<>>,
             i |-> 0,
             date |-> 0, file |-> NoFile, system |-> "undefined",
             got |-> NoRom, error |-> "none"]

\* --------------------------------------------------- IndexedDB primitives
\* the records of a set in ascending key order (getAll, getAllFromIndex)
RECURSIVE ByKey(_)
ByKey(S) ==
  IF S = {} THEN <<>>
  ELSE LET r == CHOOSE x \in S : \A y \in S : x.id <= y.id
       IN  <<r>> \o ByKey(S \ {r})

\* the elements of an array
Range(f) == {f[i] : i \in DOMAIN f}

\* db.getAllFromIndex('saves', 'by-rom', romId)
GetAllFromIndexByRom(store, romId) == ByKey({s \in store : s.romId = romId})

\* db.get('roms', id)
DbGet(store, id) ==
  IF \E r \in store : r.id = id THEN CHOOSE r \in store : r.id = id ELSE NoRom

\* db.delete(store, id)
DbDelete(store, id) == {r \in store : r.id # id}

\* db.put(store, value) for a value that carries its key: insert or replace
DbPut(store, value) == {r \in store : r.id # value.id} \cup {value}

\* Array.prototype.find(s => s.slot === slot) on a scan result: the
\* identifier of the first match, 0 (undefined) when there is none
FindSlot(scan, slot) ==
  LET hits == {i \in 1..Len(scan) : scan[i].slot = slot}
  IN  IF hits = {} THEN 0
      ELSE scan[CHOOSE i \in hits : \A j \in hits : i <= j].id

\* --------------------------------------------------------- storage service
\* the step a method continues with after `await this.initDB()`
AfterInit(op) ==
  CASE op = "addRom"           -> "detect"
    [] op = "deleteRom"        -> "delRom"
    [] op = "updateLastPlayed" -> "get"
    [] op = "saveSaveState"    -> "scan"
    [] op = "deleteSaveState"  -> "delSave"
    [] op = "getAllRoms"       -> "getAll"

\* a caller issues a call: the method runs up to its first await
Issue(c, call) ==
  /\ calls[c].op = "none"
  /\ nCalls < MaxCalls
  /\ calls' = [calls EXCEPT ![c] = call]
  /\ nCalls' = nCalls + 1
  /\ clock' = clock + 1
  /\ UNCHANGED <<storeVars, uiVars>>

CallAddRom(c) ==
  \E f \in FileSet, sys \in ExplicitSystems :
    Issue(c, [IdleCall EXCEPT !.op = "addRom", !.pc = "init",
                              !.file = f, !.system = sys])

CallDeleteRom(c) ==
  \E id \in RomIds :
    Issue(c, [IdleCall EXCEPT !.op = "deleteRom", !.pc = "init", !.id = id])

CallUpdateLastPlayed(c) ==
  \E id \in RomIds :
    Issue(c, [IdleCall EXCEPT !.op = "updateLastPlayed", !.pc = "init",
                              !.id = id])

CallSaveSaveState(c) ==
  \E id \in RomIds, slot \in Slots, in \in SaveInputs :
    Issue(c, [IdleCall EXCEPT !.op = "saveSaveState", !.pc = "init",
                              !.id = id, !.slot = slot, !.data = in.data,
                              !.screenshot = in.screenshot])

CallDeleteSaveState(c) ==
  \E id \in 1..saveKey :
    Issue(c, [IdleCall EXCEPT !.op = "deleteSaveState", !.pc = "init",
                              !.id = id])

\* initDB, up to its await: returns at once when the connection is memoized
InitDB(c) ==
  /\ calls[c].pc = "init"
  /\ calls' = [calls EXCEPT ![c].pc =
                 IF db THEN AfterInit(calls[c].op) ELSE "open"]
  /\ UNCHANGED <<storeVars, clock, nCalls, uiVars>>

\* initDB, after openDB resolved: the connection is stored in this.db
OpenDB(c) ==
  /\ calls[c].pc = "open"
  /\ db' = TRUE
  /\ calls' = [calls EXCEPT ![c].pc = AfterInit(calls[c].op)]
  /\ UNCHANGED <<roms, saves, romKey, saveKey, clock, nCalls, uiVars>>

\* the steps at which a call waits for the store (or for the file read)
AwaitPcs == {"open", "read", "add", "delRom", "scanSaves", "delSaves", "get",
             "putRom", "scan", "put", "delSave", "getAll"}

\* the awaited request rejects (the store cannot be opened, a write is
\* refused, the file cannot be read): the method throws
Reject(c) ==
  /\ calls[c].pc \in AwaitPcs
  /\ calls' = [calls EXCEPT ![c].pc = "failed", ![c].error = "rejected"]
  /\ UNCHANGED <<storeVars, clock, nCalls, uiVars>>

\* addRom, lines 97-102: resolve the system, throw when there is none
AddRomDetect(c) ==
  /\ calls[c].pc = "detect"
  /\ LET explicit == calls[c].system
         detected == IF explicit # "undefined" THEN explicit
                     ELSE detectSystem(calls[c].file.name)
     IN  calls' = [calls EXCEPT
                     ![c].system = detected,
                     ![c].pc = IF detected = NoSystem THEN "failed" ELSE "read",
                     ![c].error = IF detected = NoSystem
                                  THEN "Unknown file type" ELSE "none"]
  /\ UNCHANGED <<storeVars, clock, nCalls, uiVars>>

\* addRom, lines 102-109: the file is read, the record is built
AddRomRead(c) ==
  /\ calls[c].pc = "read"
  /\ calls' = [calls EXCEPT ![c].data = calls[c].file.bytes,
                            ![c].date = clock,
                            ![c].pc = "add"]
  /\ UNCHANGED <<storeVars, clock, nCalls, uiVars>>

\* addRom, lines 111-112: db.add gives the record the next key
AddRomAdd(c) ==
  /\ calls[c].pc = "add"
  /\ romKey' = romKey + 1
  /\ roms' = roms \cup
       {[id |-> romKey + 1,
         name |-> StripExtension(calls[c].file.name),
         fileName |-> calls[c].file.name,
         system |-> calls[c].system,
         data |-> calls[c].data,
         dateAdded |-> calls[c].date,
         lastPlayed |-> 0]}
  /\ calls' = [calls EXCEPT ![c].id = romKey + 1, ![c].pc = "done"]
  /\ UNCHANGED <<db, saves, saveKey, clock, nCalls, uiVars>>

\* deleteRom, line 132
DeleteRomRecord(c) ==
  /\ calls[c].pc = "delRom"
  /\ roms' = DbDelete(roms, calls[c].id)
  /\ calls' = [calls EXCEPT ![c].pc = "scanSaves"]
  /\ UNCHANGED <<db, saves, romKey, saveKey, clock, nCalls, uiVars>>

\* a deleteRom that looks up only the first save state of the ROM
DeleteRomLookupFirst(store, id) ==
  LET all == GetAllFromIndexByRom(store, id)
  IN  IF all = <<>> THEN <<>> ELSE <<Head(all)>>

\* the save states deleteRom goes on to delete (line 134)
DeleteRomLookup(store, id) == GetAllFromIndexByRom(store, id)

\* deleteRom, line 134
DeleteRomScan(c) ==
  /\ calls[c].pc = "scanSaves"
  /\ calls' = [calls EXCEPT ![c].scan = DeleteRomLookup(saves, calls[c].id),
                            ![c].pc = "delSaves"]
  /\ UNCHANGED <<storeVars, clock, nCalls, uiVars>>

\* deleteRom, lines 135-139: one iteration of the loop over the scan result
\* (i counts the records visited), the return after the last one
DeleteRomSaves(c) ==
  /\ calls[c].pc = "delSaves"
  /\ IF calls[c].i >= Len(calls[c].scan)
     THEN /\ calls' = [calls EXCEPT ![c].pc = "done"]
          /\ UNCHANGED saves
     ELSE LET save == calls[c].scan[calls[c].i + 1]
          IN  /\ saves' = IF save.id # 0 THEN DbDelete(saves, save.id)
                          ELSE saves
              /\ calls' = [calls EXCEPT ![c].i = calls[c].i + 1]
  /\ UNCHANGED <<db, roms, romKey, saveKey, clock, nCalls, uiVars>>

\* updateLastPlayed, line 144
UpdateLastPlayedGet(c) ==
  /\ calls[c].pc = "get"
  /\ LET rom == DbGet(roms, calls[c].id)
     IN  calls' = [calls EXCEPT
                     ![c].got = IF rom = NoRom THEN NoRom
                                ELSE [rom EXCEPT !.lastPlayed = clock],
                     ![c].pc = IF rom = NoRom THEN "done" ELSE "putRom"]
  /\ UNCHANGED <<storeVars, clock, nCalls, uiVars>>

\* updateLastPlayed, line 147
UpdateLastPlayedPut(c) ==
  /\ calls[c].pc = "putRom"
  /\ roms' = DbPut(roms, calls[c].got)
  /\ calls' = [calls EXCEPT ![c].pc = "done"]
  /\ UNCHANGED <<db, saves, romKey, saveKey, clock, nCalls, uiVars>>

\* saveSaveState, lines 155-165: the scan, and the record built from it
SaveSaveStateScan(c) ==
  /\ calls[c].pc = "scan"
  /\ calls' = [calls EXCEPT
                 ![c].scan = GetAllFromIndexByRom(saves, calls[c].id),
                 ![c].date = clock,
                 ![c].pc = "put"]
  /\ UNCHANGED <<storeVars, clock, nCalls, uiVars>>

\* a saveSaveState that never reuses a key: every call inserts
SaveStateKeyFresh(scan, slot) == 0

\* the key saveSaveState writes under: that of the slot's record when the
\* scan found one, else undefined (0), which makes the store generate one
SaveStateKey(scan, slot) == FindSlot(scan, slot)

\* saveSaveState, line 167
SaveSaveStatePut(c) ==
  /\ calls[c].pc = "put"
  /\ LET given == SaveStateKey(calls[c].scan, calls[c].slot)
         key   == IF given = 0 THEN saveKey + 1 ELSE given
     IN  /\ saves' = DbPut(saves, [id |-> key,
                                   romId |-> calls[c].id,
                                   slot |-> calls[c].slot,
                                   data |-> calls[c].data,
                                   screenshot |-> calls[c].screenshot,
                                   dateSaved |-> calls[c].date])
         /\ saveKey' = IF key > saveKey THEN key ELSE saveKey
  /\ calls' = [calls EXCEPT ![c].pc = "done"]
  /\ UNCHANGED <<db, roms, romKey, clock, nCalls, uiVars>>

\* deleteSaveState, line 177
DeleteSaveStateDelete(c) ==
  /\ calls[c].pc = "delSave"
  /\ saves' = DbDelete(saves, calls[c].id)
  /\ calls' = [calls EXCEPT ![c].pc = "done"]
  /\ UNCHANGED <<db, roms, romKey, saveKey, clock, nCalls, uiVars>>

\* getAllRoms, line 117
GetAllRomsGet(c) ==
  /\ calls[c].pc = "getAll"
  /\ calls' = [calls EXCEPT ![c].scan = ByKey(roms), ![c].pc = "done"]
  /\ UNCHANGED <<storeVars, clock, nCalls, uiVars>>

\* the caller takes the result (or the exception) of its finished call
Return(c) ==
  /\ calls[c].pc \in {"done", "failed"}
  /\ calls' = [calls EXCEPT ![c] = IdleCall]
  /\ UNCHANGED <<storeVars, clock, nCalls, uiVars>>

StoreStep(c) ==
  \/ CallAddRom(c)
  \/ CallDeleteRom(c)
  \/ CallUpdateLastPlayed(c)
  \/ CallSaveSaveState(c)
  \/ CallDeleteSaveState(c)
  \/ InitDB(c)
  \/ OpenDB(c)
  \/ Reject(c)
  \/ AddRomDetect(c)
  \/ AddRomRead(c)
  \/ AddRomAdd(c)
  \/ DeleteRomRecord(c)
  \/ DeleteRomScan(c)
  \/ DeleteRomSaves(c)
  \/ UpdateLastPlayedGet(c)
  \/ UpdateLastPlayedPut(c)
  \/ SaveSaveStateScan(c)
  \/ SaveSaveStatePut(c)
  \/ DeleteSaveStateDelete(c)
  \/ Return(c)


\* ------------------------------------------------------ session controller
\* the error field: the message and what it is about
NoError == [kind |-> "", system |-> "", file |-> <<>>, reason |-> ""]

\* the EJS_* globals stopEmulator deletes, all undefined
NoWin == [player |-> "undefined", core |-> "undefined", gameUrl |-> 0,
          gameName |-> <<>>]

\* the component as constructed (lines 40-56), in a page without the engine
UiInit ==
  /\ isPlaying = FALSE
  /\ currentRom = NoRom
  /\ currentRomUrl = 0
  /\ error = NoError
  /\ win = NoWin
  /\ emulator = FALSE
  /\ scripts = 0
  /\ blobs = {}
  /\ urlKey = 0
  /\ timers = <<>>
  /\ plays = [c \in {1, 2} |-> NoRom]
  /\ nPlays = 0
  /\ thrown = "none"
  /\ destroyed = FALSE

\* no addFiles has run
NoBatch == [files |-> <<>>, i |-> 0, pc |-> "idle", slot |-> 0]

\* the library view as constructed (lines 40-44)
CatalogEmpty ==
  /\ compRoms = <<>>
  /\ filteredRoms = <<>>
  /\ selectedSystem = "all"
  /\ searchTerm = <<>>
  /\ loading = FALSE
  /\ batch = NoBatch
  /\ adding = [c \in {1, 2} |-> 0]
  /\ outcome = <<>>
  /\ nBatches = 0

\* the fields stopEmulator reads and writes
Sess ==
  [isPlaying |-> isPlaying, currentRom |-> currentRom,
   currentRomUrl |-> currentRomUrl, win |-> win, emulator |-> emulator,
   scripts |-> scripts, blobs |-> blobs, thrown |-> thrown]

\* a stopEmulator without the try/catch around pause() and exit(): the
\* engine's exception leaves the method at line 210
StopEmulatorUnguarded(s, throws) ==
  IF s.emulator /\ throws
  THEN [s EXCEPT !.thrown = "stopEmulator"]
  ELSE [s EXCEPT !.emulator = FALSE,
                 !.blobs = {b \in s.blobs : b.url # s.currentRomUrl},
                 !.currentRomUrl = 0,
                 !.scripts = 0,
                 !.win = NoWin,
                 !.isPlaying = FALSE,
                 !.currentRom = NoRom]

\* stopEmulator (lines 205-248) run on s; `throws` says whether pause() or
\* exit() of the engine throws, which the method catches
StopEmulatorResult(s, throws) ==
  [s EXCEPT
     \* lines 207-215: the engine is halted, the reference deleted
     !.emulator = FALSE,
     \* lines 218-221: the object URL held is revoked
     !.blobs = IF s.currentRomUrl # 0
               THEN {b \in s.blobs : b.url # s.currentRomUrl}
               ELSE s.blobs,
     !.currentRomUrl = 0,
     \* lines 236-238: every loader script is removed
     !.scripts = 0,
     \* lines 241-244
     !.win = NoWin,
     \* lines 246-247
     !.isPlaying = FALSE,
     !.currentRom = NoRom]

\* the component takes the fields of s
SetSess(s) ==
  /\ isPlaying' = s.isPlaying
  /\ currentRom' = s.currentRom
  /\ currentRomUrl' = s.currentRomUrl
  /\ win' = s.win
  /\ emulator' = s.emulator
  /\ scripts' = s.scripts
  /\ blobs' = s.blobs
  /\ thrown' = s.thrown

\* the user presses stop
StopEmulator ==
  /\ ~destroyed
  /\ \E throws \in BOOLEAN : SetSess(StopEmulatorResult(Sess, throws))
  /\ UNCHANGED <<catVars, ingestVars>>
  /\ UNCHANGED <<storeVars, clock, calls, nCalls, error, urlKey, timers,
                 plays, nPlays, destroyed>>

\* ngOnDestroy (lines 64-66)
NgOnDestroy ==
  /\ ~destroyed
  /\ destroyed' = TRUE
  /\ \E throws \in BOOLEAN : SetSess(StopEmulatorResult(Sess, throws))
  /\ UNCHANGED <<catVars, ingestVars>>
  /\ UNCHANGED <<storeVars, clock, calls, nCalls, error, urlKey, timers,
                 plays, nPlays>>

\* a playRom that sets the timer before it awaits updateLastPlayed
PlayRomEager(c) ==
  /\ ~destroyed
  /\ nPlays < MaxPlays
  /\ plays[c] = NoRom
  /\ calls[c].op = "none"
  /\ \E rom \in Range(filteredRoms) :
       /\ currentRom' = rom
       /\ isPlaying' = TRUE
       /\ timers' = Append(timers, rom)
       /\ IF rom.id # 0
          THEN calls' = [calls EXCEPT ![c] =
                 [IdleCall EXCEPT !.op = "updateLastPlayed",
                                  !.pc = "init", !.id = rom.id]]
          ELSE UNCHANGED calls
  /\ nPlays' = nPlays + 1
  /\ clock' = clock + 1
  /\ UNCHANGED <<catVars, ingestVars>>
  /\ UNCHANGED <<storeVars, nCalls, currentRomUrl, win, emulator, scripts,
                 blobs, urlKey, thrown, destroyed, error, plays>>

\* playRom, lines 165-170, for a record the library view lists: up to the
\* await of updateLastPlayed, or up to setTimeout when the record has no id
PlayRom(c) ==
  /\ ~destroyed
  /\ nPlays < MaxPlays
  /\ plays[c] = NoRom
  /\ calls[c].op = "none"
  /\ \E rom \in Range(filteredRoms) :
       /\ currentRom' = rom
       /\ isPlaying' = TRUE
       /\ IF rom.id # 0
          THEN /\ plays' = [plays EXCEPT ![c] = rom]
               /\ calls' = [calls EXCEPT ![c] =
                    [IdleCall EXCEPT !.op = "updateLastPlayed",
                                     !.pc = "init", !.id = rom.id]]
               /\ UNCHANGED timers
          ELSE /\ timers' = Append(timers, rom)
               /\ UNCHANGED <<plays, calls>>
  /\ nPlays' = nPlays + 1
  /\ clock' = clock + 1
  /\ UNCHANGED <<catVars, ingestVars>>
  /\ UNCHANGED <<storeVars, nCalls, currentRomUrl, win, emulator, scripts,
                 blobs, urlKey, thrown, destroyed, error>>

\* playRom, line 174: updateLastPlayed resolved, the hand-off is scheduled
PlayRomSchedule(c) ==
  /\ plays[c] # NoRom
  /\ calls[c].pc = "done"
  /\ timers' = Append(timers, plays[c])
  /\ plays' = [plays EXCEPT ![c] = NoRom]
  /\ calls' = [calls EXCEPT ![c] = IdleCall]
  /\ UNCHANGED <<catVars, ingestVars>>
  /\ UNCHANGED <<storeVars, clock, nCalls, isPlaying, currentRom,
                 currentRomUrl, win, emulator, scripts, blobs, urlKey,
                 nPlays, thrown, destroyed, error>>

\* playRom, line 170: updateLastPlayed rejected; nothing catches it, the
\* method ends there
PlayRomThrows(c) ==
  /\ plays[c] # NoRom
  /\ calls[c].pc = "failed"
  /\ thrown' = "playRom"
  /\ plays' = [plays EXCEPT ![c] = NoRom]
  /\ calls' = [calls EXCEPT ![c] = IdleCall]
  /\ UNCHANGED <<catVars, ingestVars>>
  /\ UNCHANGED <<storeVars, clock, nCalls, isPlaying, currentRom,
                 currentRomUrl, win, emulator, scripts, blobs, urlKey,
                 timers, nPlays, destroyed, error>>

\* SYSTEM_INFO[rom.system as SystemType] is defined
Supported(system) == system \in SystemTypes

\* the timer of playRom fires: initEmulator (lines 177-203)
InitEmulator ==
  /\ timers # <<>>
  /\ LET rom == Head(timers)
     IN  IF ~Supported(rom.system)
         THEN \* lines 179-183
              /\ error' = [NoError EXCEPT !.kind = "Unknown system",
                                          !.system = rom.system]
              /\ \E throws \in BOOLEAN :
                   SetSess(StopEmulatorResult(Sess, throws))
              /\ UNCHANGED urlKey
         ELSE \* lines 186-202
              /\ urlKey' = urlKey + 1
              /\ blobs' = blobs \cup {[url |-> urlKey + 1, data |-> rom.data]}
              /\ currentRomUrl' = urlKey + 1
              /\ win' = [player |-> "#emulator-game",
                         core |-> SYSTEM_INFO[rom.system].core,
                         gameUrl |-> urlKey + 1,
                         gameName |-> rom.name]
              /\ scripts' = scripts + 1
              /\ UNCHANGED <<isPlaying, currentRom, emulator, thrown, error>>
  /\ timers' = Tail(timers)
  /\ UNCHANGED <<catVars, ingestVars>>
  /\ UNCHANGED <<storeVars, clock, calls, nCalls, plays, nPlays, destroyed>>

\* loader.js, once loaded, starts the engine from the EJS_* globals and
\* publishes it as window.EJS_emulator
EngineStart ==
  /\ scripts > 0
  /\ win.gameUrl # 0
  /\ ~emulator
  /\ emulator' = TRUE
  /\ UNCHANGED <<catVars, ingestVars>>
  /\ UNCHANGED <<storeVars, clock, calls, nCalls, isPlaying, currentRom,
                 currentRomUrl, win, scripts, blobs, urlKey, timers, plays,
                 nPlays, thrown, destroyed, error>>

\* ----------------------------------------------------------------- catalog
\* position of a character in the collation order of localeCompare:
\* letters in alphabetical order whatever their case, other characters
\* before them
CharRank(ch) ==
  LET l == LowerChar(ch)
  IN  IF \E i \in 1..Len(LowerChars) : LowerChars[i] = l
      THEN CHOOSE i \in 1..Len(LowerChars) : LowerChars[i] = l
      ELSE 0

IsUpper(ch) == \E i \in 1..Len(UpperChars) : UpperChars[i] = ch

\* the first position at which a and b differ in letters, 0 when they do
\* not up to the shorter one's end
FirstLetterDiff(a, b) ==
  LET n == IF Len(a) < Len(b) THEN Len(a) ELSE Len(b)
      d == {i \in 1..n : CharRank(a[i]) # CharRank(b[i])}
  IN  IF d = {} THEN 0 ELSE CHOOSE i \in d : \A j \in d : i <= j

\* the first position at which a and b differ in case
FirstCaseDiff(a, b) ==
  LET n == IF Len(a) < Len(b) THEN Len(a) ELSE Len(b)
      d == {i \in 1..n : IsUpper(a[i]) # IsUpper(b[i])}
  IN  IF d = {} THEN 0 ELSE CHOOSE i \in d : \A j \in d : i <= j

\* String.prototype.localeCompare: the letters decide; between strings
\* with the same letters, lower case sorts before upper case at the first
\* difference
LocaleCompare(a, b) ==
  LET p == FirstLetterDiff(a, b)
      t == FirstCaseDiff(a, b)
  IN  IF p # 0 THEN (IF CharRank(a[p]) < CharRank(b[p]) THEN -1 ELSE 1)
      ELSE IF Len(a) # Len(b) THEN (IF Len(a) < Len(b) THEN -1 ELSE 1)
      ELSE IF t # 0 THEN (IF IsUpper(b[t]) THEN -1 ELSE 1)
      ELSE 0

\* String.prototype.includes
StrIncludes(hay, needle) ==
  \E k \in 0..(Len(hay) - Len(needle)) :
    SubSeq(hay, k + 1, k + Len(needle)) = needle

\* a predicate that searches the name as typed, case and all
MatchesFilterCaseSensitive(rom, system, term) ==
  (system = "all" \/ rom.system = system)
    /\ (term = <<>> \/ StrIncludes(rom.name, term))

\* the predicate of filterRoms (lines 81-86)
MatchesFilter(rom, system, term) ==
  LET matchesSystem == system = "all" \/ rom.system = system
      matchesSearch == term = <<>> \/
                         StrIncludes(ToLowerCase(rom.name), ToLowerCase(term))
  IN  matchesSystem /\ matchesSearch

\* Array.prototype.filter
RECURSIVE FilterSeq(_, _, _)
FilterSeq(list, system, term) ==
  IF list = <<>> THEN <<>>
  ELSE (IF MatchesFilter(Head(list), system, term) THEN <<Head(list)>>
        ELSE <<>>) \o FilterSeq(Tail(list), system, term)

\* a comparator that sorts the played records oldest first
CompareAscending(a, b) ==
  IF a.lastPlayed # 0 /\ b.lastPlayed # 0 THEN a.lastPlayed - b.lastPlayed
  ELSE IF a.lastPlayed # 0 THEN -1
  ELSE IF b.lastPlayed # 0 THEN 1
  ELSE LocaleCompare(a.name, b.name)

\* the comparator of filterRoms (lines 89-96)
Compare(a, b) ==
  IF a.lastPlayed # 0 /\ b.lastPlayed # 0 THEN b.lastPlayed - a.lastPlayed
  ELSE IF a.lastPlayed # 0 THEN -1
  ELSE IF b.lastPlayed # 0 THEN 1
  ELSE LocaleCompare(a.name, b.name)

\* Array.prototype.sort, which is stable: x goes behind the elements that
\* do not compare greater than it
RECURSIVE InsertSorted(_, _)
InsertSorted(sorted, x) ==
  IF sorted = <<>> THEN <<x>>
  ELSE IF Compare(Head(sorted), x) <= 0
       THEN <<Head(sorted)>> \o InsertSorted(Tail(sorted), x)
       ELSE <<x>> \o sorted

RECURSIVE SortRoms(_)
SortRoms(list) ==
  IF list = <<>> THEN <<>>
  ELSE InsertSorted(SortRoms(SubSeq(list, 1, Len(list) - 1)), list[Len(list)])

\* the value filterRoms gives filteredRoms (lines 80-97)
FilterRomsResult(list, system, term) == SortRoms(FilterSeq(list, system, term))

\* the system filter offers "all" and the systems; the search box takes text
SystemChoices == {"all", "nes", "gb"}
SearchTerms == {<<>>, <<"z", "E">>, <<"a", "r">>}

\* onSystemChange (lines 103-105), after the select has set selectedSystem
OnSystemChange ==
  \E sys \in SystemChoices :
    /\ sys # selectedSystem
    /\ selectedSystem' = sys
    /\ filteredRoms' = FilterRomsResult(compRoms, sys, searchTerm)
    /\ UNCHANGED <<storeVars, clock, calls, nCalls, sessVars, error, ingestVars,
                   compRoms,
                   searchTerm, loading>>

\* onSearchChange (lines 99-101), after the input has set searchTerm
OnSearchChange ==
  \E term \in SearchTerms :
    /\ term # searchTerm
    /\ searchTerm' = term
    /\ filteredRoms' = FilterRomsResult(compRoms, selectedSystem, term)
    /\ UNCHANGED <<storeVars, clock, calls, nCalls, sessVars, error, ingestVars,
                   compRoms,
                   selectedSystem, loading>>

\* records a library can hold: never played and played, names that differ
\* in letters and in case only, equal names, equal times
CatalogRecord(id, name, system, lastPlayed) ==
  [id |-> id, name |-> name, fileName |-> name \o <<".", "g", "b">>,
   system |-> system, data |-> "bytes", dateAdded |-> 1,
   lastPlayed |-> lastPlayed]

CatalogUniverse ==
  {CatalogRecord(1, <<"A","a","r","d","v","a","r","k">>, "nes", 0),
   CatalogRecord(2, <<"Z","e","b","r","a">>, "gb", 0),
   CatalogRecord(3, <<"M","a","r","i","o">>, "nes", 4),
   CatalogRecord(4, <<"L","u","i","g","i">>, "gb", 3),
   CatalogRecord(5, <<"z","e","b","r","a">>, "nes", 0),
   CatalogRecord(6, <<"Z","e","b","r","a">>, "nes", 4)}

\* the arrays of distinct records of S with at most n elements
RECURSIVE Arrays(_, _)
Arrays(S, n) ==
  IF n = 0 THEN {<<>>}
  ELSE LET shorter == Arrays(S, n - 1)
       IN  shorter \cup
           {Append(a, r) : a \in {x \in shorter : Len(x) = n - 1},
                           r \in S}

NoDuplicates(a) == \A i, j \in 1..Len(a) : a[i] = a[j] => i = j

\* the component after loadRoms has taken a library from the store, in any
\* order, and filtered it (lines 71-72)
InitCatalog ==
  /\ db = TRUE
  /\ compRoms \in {a \in Arrays(CatalogUniverse, MaxCatalog) : NoDuplicates(a)}
  /\ roms = Range(compRoms)
  /\ saves = {}
  /\ romKey = 6
  /\ saveKey = 0
  /\ clock = 4
  /\ calls = [c \in {1} |-> IdleCall]
  /\ nCalls = 0
  /\ UiInit
  /\ selectedSystem = "all"
  /\ searchTerm = <<>>
  /\ filteredRoms = FilterRomsResult(compRoms, selectedSystem, searchTerm)
  /\ loading = FALSE
  /\ batch = NoBatch
  /\ adding = [c \in {1, 2} |-> 0]
  /\ outcome = <<>>
  /\ nBatches = 0

NextCatalog == OnSystemChange \/ OnSearchChange

SpecCatalog == InitCatalog /\ [][NextCatalog]_vars


\* --------------------------------------------------- session, assembled
\* the catalog the session controller starts from: a ROM ingested from
\* a.nes and a record whose system tag is no key of SYSTEM_INFO
SessionRoms ==
  {[id |-> 1, name |-> <<"a">>, fileName |-> <<"a", ".", "n", "e", "s">>,
    system |-> "nes", data |-> "bytesA", dateAdded |-> 1, lastPlayed |-> 0],
   [id |-> 2, name |-> <<"b">>, fileName |-> <<"b", ".", "x", "y", "z">>,
    system |-> "dreamcast", data |-> "bytesB", dateAdded |-> 2,
    lastPlayed |-> 0]}

\* the component after ngOnInit has loaded a library of two records
InitSession ==
  /\ db = TRUE
  /\ roms = SessionRoms
  /\ saves = {}
  /\ romKey = 2
  /\ saveKey = 0
  /\ clock = 2
  /\ calls = [c \in {1, 2} |-> IdleCall]
  /\ nCalls = 0
  /\ UiInit
  /\ compRoms = ByKey(SessionRoms)
  /\ filteredRoms = FilterRomsResult(compRoms, "all", <<>>)
  /\ selectedSystem = "all"
  /\ searchTerm = <<>>
  /\ loading = FALSE
  /\ batch = NoBatch
  /\ adding = [c \in {1, 2} |-> 0]
  /\ outcome = <<>>
  /\ nBatches = 0

NextSession ==
  \/ \E c \in DOMAIN plays : PlayRom(c)
  \/ \E c \in DOMAIN plays : InitDB(c)
  \/ \E c \in DOMAIN plays : UpdateLastPlayedGet(c)
  \/ \E c \in DOMAIN plays : UpdateLastPlayedPut(c)
  \/ \E c \in DOMAIN plays : Reject(c)
  \/ \E c \in DOMAIN plays : PlayRomSchedule(c)
  \/ \E c \in DOMAIN plays : PlayRomThrows(c)
  \/ InitEmulator
  \/ EngineStart
  \/ StopEmulator
  \/ NgOnDestroy

SpecSession == InitSession /\ [][NextSession]_vars


\* --------------------------------------------------------------- ingestion
\* the files a user drops or selects
IngestFiles == {[name |-> <<"a", ".", "n", "e", "s">>, bytes |-> "bytesA"],
                [name |-> <<"b", ".", "x", "y", "z">>, bytes |-> "bytesB"],
                [name |-> <<"c", ".", "G", "B">>, bytes |-> "bytesC"]}

Pending == [status |-> "pending", id |-> 0, reason |-> ""]

\* a loop that starts the addRom of every file without awaiting any
LoopRunsAhead == TRUE

\* `await` in the loop of addFiles (line 147) and before loadRoms (line
\* 154): the method goes on when the call it awaits has settled
LoopAwaitsAddRom == \A c \in DOMAIN adding : calls[c].op = "none"

\* addFiles, lines 141-144
AddFiles ==
  /\ batch.pc \in {"idle", "done"}
  /\ \A c \in DOMAIN adding : calls[c].op = "none"
  /\ nBatches < MaxBatches
  /\ \E files \in {a \in Arrays(IngestFiles, MaxBatch) : NoDuplicates(a)} :
       /\ batch' = [files |-> files, i |-> 0, pc |-> "loop", slot |-> 0]
       /\ outcome' = [j \in 1..Len(files) |-> Pending]
  /\ error' = NoError
  /\ loading' = TRUE
  /\ nBatches' = nBatches + 1
  /\ UNCHANGED <<storeVars, clock, calls, nCalls, sessVars, compRoms,
                 filteredRoms, selectedSystem, searchTerm, adding>>

\* addFiles, lines 145-147: the loop takes the next file and calls addRom
AddFilesNext(c) ==
  /\ batch.pc = "loop"
  /\ batch.i < Len(batch.files)
  /\ LoopAwaitsAddRom
  /\ calls[c].op = "none"
  /\ calls' = [calls EXCEPT ![c] =
       [IdleCall EXCEPT !.op = "addRom", !.pc = "init",
                        !.file = batch.files[batch.i + 1]]]
  /\ adding' = [adding EXCEPT ![c] = batch.i + 1]
  /\ batch' = [batch EXCEPT !.i = batch.i + 1]
  /\ clock' = clock + 1
  /\ UNCHANGED <<storeVars, nCalls, sessVars, error, catVars, outcome,
                 nBatches>>

\* addFiles, line 147: addRom resolved
AddFilesResolved(c) ==
  /\ adding[c] > 0
  /\ calls[c].pc = "done"
  /\ outcome' = [outcome EXCEPT ![adding[c]] =
       [status |-> "stored", id |-> calls[c].id, reason |-> ""]]
  /\ adding' = [adding EXCEPT ![c] = 0]
  /\ calls' = [calls EXCEPT ![c] = IdleCall]
  /\ UNCHANGED <<storeVars, clock, nCalls, sessVars, error, catVars, batch,
                 nBatches>>

\* addFiles, lines 148-151: addRom threw, the message replaces this.error
AddFilesCaught(c) ==
  /\ adding[c] > 0
  /\ calls[c].pc = "failed"
  /\ error' = [NoError EXCEPT !.kind = "Failed to add",
                              !.file = calls[c].file.name,
                              !.reason = calls[c].error]
  /\ outcome' = [outcome EXCEPT ![adding[c]] =
       [status |-> "failed", id |-> 0, reason |-> calls[c].error]]
  /\ adding' = [adding EXCEPT ![c] = 0]
  /\ calls' = [calls EXCEPT ![c] = IdleCall]
  /\ UNCHANGED <<storeVars, clock, nCalls, sessVars, catVars, batch,
                 nBatches>>

\* addFiles, line 154, and loadRoms, lines 69-71: after the loop the
\* library is asked from the store
AddFilesLoad(c) ==
  /\ batch.pc = "loop"
  /\ batch.i = Len(batch.files)
  /\ LoopAwaitsAddRom
  /\ calls[c].op = "none"
  /\ calls' = [calls EXCEPT ![c] =
       [IdleCall EXCEPT !.op = "getAllRoms", !.pc = "init"]]
  /\ batch' = [batch EXCEPT !.pc = "load", !.slot = c]
  /\ loading' = TRUE
  /\ UNCHANGED <<storeVars, clock, nCalls, sessVars, error, compRoms,
                 filteredRoms, selectedSystem, searchTerm, adding, outcome,
                 nBatches>>

\* loadRoms, lines 71-72 and 75-77: the library arrived and is filtered
LoadRomsDone(c) ==
  /\ batch.pc = "load"
  /\ batch.slot = c
  /\ calls[c].pc = "done"
  /\ compRoms' = calls[c].scan
  /\ filteredRoms' = FilterRomsResult(calls[c].scan, selectedSystem, searchTerm)
  /\ loading' = FALSE
  /\ batch' = [batch EXCEPT !.pc = "done"]
  /\ calls' = [calls EXCEPT ![c] = IdleCall]
  /\ UNCHANGED <<storeVars, clock, nCalls, sessVars, error, selectedSystem,
                 searchTerm, adding, outcome, nBatches>>

\* loadRoms, lines 73-77: getAllRoms threw
LoadRomsCaught(c) ==
  /\ batch.pc = "load"
  /\ batch.slot = c
  /\ calls[c].pc = "failed"
  /\ error' = [NoError EXCEPT !.kind = "Failed to load ROM library"]
  /\ loading' = FALSE
  /\ batch' = [batch EXCEPT !.pc = "done"]
  /\ calls' = [calls EXCEPT ![c] = IdleCall]
  /\ UNCHANGED <<storeVars, clock, nCalls, sessVars, compRoms, filteredRoms,
                 selectedSystem, searchTerm, adding, outcome, nBatches>>

\* a fresh browser profile, the component constructed
InitIngest ==
  /\ db = FALSE
  /\ roms = {}
  /\ saves = {}
  /\ romKey = 0
  /\ saveKey = 0
  /\ clock = 0
  /\ calls = [c \in {1, 2} |-> IdleCall]
  /\ nCalls = 0
  /\ UiInit
  /\ CatalogEmpty

NextIngest ==
  \/ AddFiles
  \/ \E c \in DOMAIN adding : AddFilesNext(c)
  \/ \E c \in DOMAIN adding : InitDB(c)
  \/ \E c \in DOMAIN adding : OpenDB(c)
  \/ \E c \in DOMAIN adding : Reject(c)
  \/ \E c \in DOMAIN adding : AddRomDetect(c)
  \/ \E c \in DOMAIN adding : AddRomRead(c)
  \/ \E c \in DOMAIN adding : AddRomAdd(c)
  \/ \E c \in DOMAIN adding : AddFilesResolved(c)
  \/ \E c \in DOMAIN adding : AddFilesCaught(c)
  \/ \E c \in DOMAIN adding : AddFilesLoad(c)
  \/ \E c \in DOMAIN adding : GetAllRomsGet(c)
  \/ \E c \in DOMAIN adding : LoadRomsDone(c)
  \/ \E c \in DOMAIN adding : LoadRomsCaught(c)

SpecIngest == InitIngest /\ [][NextIngest]_vars

\* a fresh browser profile, one caller: calls run one after another
Init ==
  /\ db = FALSE
  /\ roms = {}
  /\ saves = {}
  /\ romKey = 0
  /\ saveKey = 0
  /\ clock = 0
  /\ calls = [c \in {1} |-> IdleCall]
  /\ nCalls = 0
  /\ UiInit
  /\ CatalogEmpty

Next == \E c \in DOMAIN calls : StoreStep(c)

Spec == Init /\ [][Next]_vars


\* --------------------------------------------------------------- detection
\* String.prototype.toUpperCase, one character
UpperChar(c) ==
  IF \E i \in 1..Len(LowerChars) : LowerChars[i] = c
  THEN UpperChars[CHOOSE i \in 1..Len(LowerChars) : LowerChars[i] = c]
  ELSE c

\* the spellings of an extension a file name can carry: as SYSTEM_INFO
\* lists it, in capitals, and with every other character in capitals
CaseVariants(e) ==
  {e,
   [i \in 1..Len(e) |-> UpperChar(e[i])],
   [i \in 1..Len(e) |-> IF i % 2 = 0 THEN UpperChar(e[i]) ELSE e[i]]}

\* the extensions SYSTEM_INFO lists
ListedExtensions ==
  UNION {Range(SYSTEM_INFO[s].extensions) : s \in SystemTypes}

NameStem == <<"n", "a", "m", "e">>

\* names of files handed to addRom: 'name' + E for every listed extension
\* E in every spelling, and names with an unlisted extension, with no
\* extension, with a trailing dot, with several dots, with a leading dot
\* only, and without a dot but spelled like a listed extension
DetectNames ==
  UNION {{NameStem \o v : v \in CaseVariants(e)} : e \in ListedExtensions}
  \cup {NameStem \o <<".", "x", "y", "z">>,
        NameStem,
        NameStem \o <<".">>,
        NameStem \o <<".", "n", "e", "s", ".", "t", "x", "t">>,
        NameStem \o <<".", "t", "x", "t", ".", "G", "b", "a">>,
        <<".", "s", "m", "s">>,
        <<"g", "b">>,
        <<"B", "I", "N">>}

DetectFiles == {[name |-> n, bytes |-> "bytesA"] : n \in DetectNames}

\* a caller calls addRom(file) or addRom(file, system) for such a file
CallAddRomNamed(c) ==
  /\ calls[c].op = "none"
  /\ nCalls < MaxDetects
  /\ \E f \in DetectFiles, sys \in {"undefined", "gbc"} :
       calls' = [calls EXCEPT ![c] =
         [IdleCall EXCEPT !.op = "addRom", !.pc = "init",
                          !.file = f, !.system = sys]]
  /\ nCalls' = nCalls + 1
  /\ clock' = clock + 1
  /\ UNCHANGED <<storeVars, uiVars>>

NextDetect ==
  \/ \E c \in DOMAIN calls : CallAddRomNamed(c)
  \/ \E c \in DOMAIN calls : InitDB(c)
  \/ \E c \in DOMAIN calls : OpenDB(c)
  \/ \E c \in DOMAIN calls : Reject(c)
  \/ \E c \in DOMAIN calls : AddRomDetect(c)
  \/ \E c \in DOMAIN calls : AddRomRead(c)
  \/ \E c \in DOMAIN calls : AddRomAdd(c)
  \/ \E c \in DOMAIN calls : Return(c)

\* a fresh browser profile, one caller
SpecDetect == Init /\ [][NextDetect]_vars


\* --------------------------------------------------------- overlapping calls
\* Two handlers of the page (a play request, a delete, a save) call the
\* storage service without waiting for each other: their methods
\* interleave at the awaits.
\* a handler issues a call while the other's may be in flight
IssueOverlapping(c, call) ==
  /\ calls[c].op = "none"
  /\ nCalls < MaxOverlap
  /\ calls' = [calls EXCEPT ![c] = call]
  /\ nCalls' = nCalls + 1
  /\ clock' = clock + 1
  /\ UNCHANGED <<storeVars, uiVars>>

\* EmulatorComponent.deleteRom (line 160) for the first record of the
\* library
OverlapDeleteRom(c) ==
  IssueOverlapping(c, [IdleCall EXCEPT !.op = "deleteRom", !.pc = "init",
                                       !.id = 1])

\* EmulatorComponent.playRom (line 170) for the same record
OverlapUpdateLastPlayed(c) ==
  IssueOverlapping(c, [IdleCall EXCEPT !.op = "updateLastPlayed",
                                       !.pc = "init", !.id = 1])

\* saveSaveState for a slot of the same record
OverlapSaveSaveState(c) ==
  \E slot \in {1, 2}, in \in SaveInputs :
    IssueOverlapping(c, [IdleCall EXCEPT !.op = "saveSaveState",
                                         !.pc = "init", !.id = 1,
                                         !.slot = slot, !.data = in.data,
                                         !.screenshot = in.screenshot])

\* a page just loaded over the store of an earlier visit: the library is
\* there, the connection is not open yet
InitOverlap ==
  /\ db = FALSE
  /\ roms = SessionRoms
  /\ saves = {}
  /\ romKey = 2
  /\ saveKey = 0
  /\ clock = 2
  /\ calls = [c \in {1, 2} |-> IdleCall]
  /\ nCalls = 0
  /\ UiInit
  /\ CatalogEmpty

NextOverlap ==
  \/ \E c \in DOMAIN calls : OverlapDeleteRom(c)
  \/ \E c \in DOMAIN calls : OverlapUpdateLastPlayed(c)
  \/ \E c \in DOMAIN calls : OverlapSaveSaveState(c)
  \/ \E c \in DOMAIN calls : InitDB(c)
  \/ \E c \in DOMAIN calls : OpenDB(c)
  \/ \E c \in DOMAIN calls : Reject(c)
  \/ \E c \in DOMAIN calls : DeleteRomRecord(c)
  \/ \E c \in DOMAIN calls : DeleteRomScan(c)
  \/ \E c \in DOMAIN calls : DeleteRomSaves(c)
  \/ \E c \in DOMAIN calls : UpdateLastPlayedGet(c)
  \/ \E c \in DOMAIN calls : UpdateLastPlayedPut(c)
  \/ \E c \in DOMAIN calls : SaveSaveStateScan(c)
  \/ \E c \in DOMAIN calls : SaveSaveStatePut(c)
  \/ \E c \in DOMAIN calls : Return(c)

SpecOverlap == InitOverlap /\ [][NextOverlap]_vars


\* ------------------------------------------------------------------ claims
SamePair(s, t) == s.romId = t.romId /\ s.slot = t.slot

\* C1: when deleteRom(id) has completed, the store holds no save state whose
\* romId is id, however many it held before; while the call runs, the save
\* states of other ROMs stay as they are.
DeleteRomCascades ==
  [][\A c \in DOMAIN calls :
       /\ calls[c].op = "deleteRom" =>
            {s \in saves' : s.romId # calls[c].id}
              = {s \in saves : s.romId # calls[c].id}
       /\ (calls'[c].op = "deleteRom" /\ calls'[c].pc = "done") =>
            ~ \E s \in saves' : s.romId = calls'[c].id]_vars

\* C1 witness: a deleteRom that found several save states of its ROM has
\* completed
DeleteRomCascadesWitness ==
  \E c \in DOMAIN calls :
    /\ calls[c].op = "deleteRom"
    /\ calls[c].pc = "done"
    /\ Len(calls[c].scan) >= 2

\* C2: with calls run one after another, the store never holds two save
\* states of one (romId, slot) pair, and a saveSaveState that completes
\* leaves exactly one record of its pair, holding the payload, screenshot
\* and time of this call under the identifier the pair already had, and
\* leaves every other record alone.
UpsertOnePerSlot ==
  [][/\ \A s, t \in saves' : SamePair(s, t) => s = t
     /\ \A c \in DOMAIN calls :
          (calls[c].pc = "put" /\ calls'[c].pc = "done") =>
            LET mine(s) == s.romId = calls[c].id /\ s.slot = calls[c].slot
                old == {s \in saves : mine(s)}
                new == {s \in saves' : mine(s)}
            IN  /\ Cardinality(new) = 1
                /\ \A n \in new :
                     /\ n.data = calls[c].data
                     /\ n.screenshot = calls[c].screenshot
                     /\ n.dateSaved = calls[c].date
                     /\ \A o \in old : o.id = n.id
                /\ saves' \ new = saves \ old]_vars

\* C2 witness: a saveSaveState that found a record of its pair, written by
\* an earlier call with another payload, has completed
UpsertOnePerSlotWitness ==
  \E c \in DOMAIN calls :
    /\ calls[c].op = "saveSaveState"
    /\ calls[c].pc = "done"
    /\ \E i \in 1..Len(calls[c].scan) :
         /\ calls[c].scan[i].slot = calls[c].slot
         /\ calls[c].scan[i].data # calls[c].data


\* the session state Idle
Idle == ~isPlaying /\ currentRom = NoRom /\ currentRomUrl = 0

\* a start is in progress: a playRom waits for updateLastPlayed or for its
\* timer
StartPending == timers # <<>> \/ \E c \in DOMAIN plays : plays[c] # NoRom

\* C3: stopEmulator, called by the user or by ngOnDestroy in any session
\* state, ends without an exception and leaves isPlaying = false,
\* currentRom = null and currentRomUrl = null; run again on the state it
\* leaves it changes nothing, and on a controller that never started a
\* session it changes nothing either.
StopIsSafeAndIdempotent ==
  [][/\ (StopEmulator \/ NgOnDestroy) =>
          /\ Idle'
          /\ thrown' # "stopEmulator"
          /\ \A t \in BOOLEAN : StopEmulatorResult(Sess', t) = Sess'
     /\ nPlays = 0 => \A t \in BOOLEAN : StopEmulatorResult(Sess, t) = Sess
    ]_vars

\* C3 witness: stop has acted on a session that was Playing (its object URL
\* is revoked) while another start was in progress (its timer is pending)
StopIsSafeAndIdempotentWitness ==
  Idle /\ urlKey >= 1 /\ blobs = {} /\ timers # <<>>

\* where a play request for a record with an unsupported system tag is
\* meant to end
UnsupportedEnd(system) ==
  /\ ~isPlaying'
  /\ currentRom' = NoRom
  /\ error'.kind = "Unknown system"
  /\ error'.system = system
  /\ urlKey' = urlKey
  /\ win' = NoWin
  /\ scripts' = 0

\* C4: every play request for a record whose system tag is no key of
\* SYSTEM_INFO ends (at initEmulator's lookup, or earlier when playRom
\* throws) with the controller Idle, the unknown-system error in the error
\* field, no object URL created, no EJS configuration and no loader script.
UnsupportedPlayEndsIdle ==
  [][/\ (timers # <<>> /\ ~Supported(Head(timers).system) /\ InitEmulator)
          => UnsupportedEnd(Head(timers).system)
     /\ \A c \in DOMAIN plays :
          (plays[c] # NoRom /\ ~Supported(plays[c].system) /\ PlayRomThrows(c))
            => UnsupportedEnd(plays[c].system)]_vars

\* C5: the step at which a play request fails, be it the rejected
\* updateLastPlayed or the unsupported system tag, leaves the controller
\* Idle: isPlaying = false, currentRom = null, no object URL held.
PlayFailureReturnsToIdle ==
  [][((\E c \in DOMAIN plays : PlayRomThrows(c))
        \/ (timers # <<>> /\ ~Supported(Head(timers).system) /\ InitEmulator))
       => Idle']_vars

\* C6: once stop has made the controller Idle while a start was in
\* progress, it stays Idle until the next play request: no object URL is
\* created and the engine is handed nothing (no EJS configuration, no
\* loader script).
StopCancelsStart ==
  [][(Idle /\ StartPending /\ nPlays' = nPlays) =>
       (Idle' /\ urlKey' = urlKey /\ win' = win /\ scripts' = scripts)]_vars

\* C7: at any time at most one object URL created by the controller is
\* unreleased, it is the one held in currentRomUrl, and at most one engine
\* has been loaded into the page.
OneSessionOneBlob ==
  /\ Cardinality(blobs) <= 1
  /\ \A b \in blobs : b.url = currentRomUrl
  /\ scripts <= 1


HasPlayed(r) == r.lastPlayed # 0

Ids(list) == [i \in 1..Len(list) |-> list[i].id]

\* C10: in filteredRoms every record with a last-played time precedes
\* every record without one, the records with times are in descending time
\* order and the records without are in ascending name order; the library
\* {Aardvark: never, Zebra: never, Mario: 4, Luigi: 3} is listed as Mario,
\* Luigi, Aardvark, Zebra whatever the order of roms.
CatalogOrder ==
  /\ \A i, j \in 1..Len(filteredRoms) :
       i < j =>
         LET a == filteredRoms[i]
             b == filteredRoms[j]
         IN  /\ HasPlayed(b) => HasPlayed(a)
             /\ (HasPlayed(a) /\ HasPlayed(b)) => a.lastPlayed >= b.lastPlayed
             /\ (~HasPlayed(a) /\ ~HasPlayed(b)) =>
                  LocaleCompare(a.name, b.name) <= 0
  /\ (Range(Ids(compRoms)) = {1, 2, 3, 4} /\ selectedSystem = "all"
        /\ searchTerm = <<>>) => Ids(filteredRoms) = <<3, 4, 1, 2>>

\* C10 witness: the library of the example, held in the reverse of the
\* expected order, has been filtered
CatalogOrderWitness ==
  /\ Ids(compRoms) = <<2, 1, 4, 3>>
  /\ Ids(filteredRoms) = <<3, 4, 1, 2>>


Recognized(file) == detectSystem(file.name) # NoSystem

\* the record addRom stores for file j of the batch is in the store
StoredAs(j) ==
  \E r \in roms :
    /\ r.id = outcome[j].id
    /\ r.fileName = batch.files[j].name
    /\ r.data = batch.files[j].bytes
    /\ r.system = detectSystem(batch.files[j].name)

\* C8, as written: when the batch is complete, every file of it with a
\* recognized format is stored.
RecognizedFilesAreStored ==
  batch.pc = "done" =>
    \A j \in 1..Len(batch.files) :
      Recognized(batch.files[j]) =>
        (outcome[j].status = "stored" /\ StoredAs(j))

\* C8, amended: the addRom of a file starts only when those of all files
\* before it have settled, and at most one is in flight; a file fails only
\* for an unrecognized format or for a request the store or the file read
\* rejected, and every other file is stored with its name, bytes and
\* detected system, under identifiers that grow in submission order; the
\* library is reloaded only when no file is pending, and once loaded it
\* holds the stored files.
IngestInSubmissionOrder ==
  /\ \A c \in DOMAIN adding :
       adding[c] > 0 =>
         /\ \A j \in 1..(adding[c] - 1) : outcome[j].status # "pending"
         /\ \A d \in DOMAIN adding : adding[d] > 0 => d = c
  /\ \A j \in 1..Len(outcome) :
       /\ outcome[j].status = "failed" =>
            \/ outcome[j].reason = "rejected"
            \/ outcome[j].reason = "Unknown file type"
                 /\ ~Recognized(batch.files[j])
       /\ outcome[j].status = "stored" => StoredAs(j)
       /\ \A k \in 1..Len(outcome) :
            (j < k /\ outcome[j].status = "stored"
               /\ outcome[k].status = "stored") => outcome[j].id < outcome[k].id
  /\ batch.pc \in {"load", "done"} =>
       \A j \in 1..Len(outcome) : outcome[j].status # "pending"
  /\ (batch.pc = "done" /\ error.kind # "Failed to load ROM library") =>
       \A j \in 1..Len(outcome) :
         outcome[j].status = "stored" =>
           \E i \in 1..Len(compRoms) : compRoms[i].id = outcome[j].id

\* C8 witness: a batch of three is complete, its second file failed, its
\* first and third are stored and listed
IngestInSubmissionOrderWitness ==
  /\ batch.pc = "done"
  /\ Len(outcome) = 3
  /\ outcome[1].status = "stored"
  /\ outcome[2].status = "failed"
  /\ outcome[3].status = "stored"
  /\ Len(compRoms) = 2

\* C9: when the batch is complete (and its reload did not fail, which
\* writes the field too), the error field carries the file name and the
\* failure reason of every file of the batch that failed.
ErrorNamesEveryFailure ==
  (batch.pc = "done" /\ error.kind # "Failed to load ROM library") =>
    \A j \in 1..Len(outcome) :
      outcome[j].status = "failed" =>
        /\ error.kind = "Failed to add"
        /\ error.file = batch.files[j].name
        /\ error.reason = outcome[j].reason

\* C11: two records of filteredRoms with equal last-played times (both
\* never played, or both played at the same time) are in ascending name
\* order, and filteredRoms is what filterRoms gives for the same records
\* taken in key order, so it does not depend on the order of roms.
CatalogOrderIsTotal ==
  /\ \A i, j \in 1..Len(filteredRoms) :
       (i < j /\ filteredRoms[i].lastPlayed = filteredRoms[j].lastPlayed) =>
         LocaleCompare(filteredRoms[i].name, filteredRoms[j].name) <= 0
  /\ filteredRoms =
       FilterRomsResult(ByKey(Range(compRoms)), selectedSystem, searchTerm)

\* the name holds the term at some position, letter case apart
ContainsIgnoringCase(name, term) ==
  \E k \in 0..(Len(name) - Len(term)) :
    \A i \in 1..Len(term) : LowerChar(name[k + i]) = LowerChar(term[i])

\* C12: filteredRoms holds exactly the records of roms whose system is the
\* selected one (or any, under 'all') and whose name contains the search
\* term, letter case apart (or any, under an empty term); each of them once
\* and as it is in roms; under 'all' and an empty term that is every record.
FilterKeepsExactlyMatches ==
  /\ Range(filteredRoms) =
       {r \in Range(compRoms) :
          /\ selectedSystem = "all" \/ r.system = selectedSystem
          /\ searchTerm = <<>> \/ ContainsIgnoringCase(r.name, searchTerm)}
  /\ NoDuplicates(filteredRoms)
  /\ (selectedSystem = "all" /\ searchTerm = <<>>) =>
       /\ Range(filteredRoms) = Range(compRoms)
       /\ Len(filteredRoms) = Len(compRoms)

\* C12 witness: a system and a term typed in mixed case are selected, the
\* library of four holds records that match both (their names differ from
\* the term in case), records that match one only and none
FilterKeepsExactlyMatchesWitness ==
  /\ selectedSystem = "nes"
  /\ searchTerm = <<"z", "E">>
  /\ Len(compRoms) = 4
  /\ Range(Ids(filteredRoms)) = {5, 6}
  /\ Range(Ids(compRoms)) = {1, 2, 5, 6}

\* system i of SYSTEM_INFO lists the extension e
Lists(i, e) == e \in Range(SYSTEM_INFO[SystemOrder[i]].extensions)

\* addRom, called without a system, gets `result` from detectSystem
Detects(c, result) ==
  (calls[c].pc = "detect" /\ calls[c].system = "undefined"
     /\ calls'[c].pc # "detect") => calls'[c].system = result

\* C13, as written: for every system S and every extension E of its list,
\* in any spelling, detectSystem('name' + E) is S.
DetectReturnsListingSystem ==
  [][\A c \in DOMAIN calls, i \in 1..Len(SystemOrder) :
       \A e \in Range(SYSTEM_INFO[SystemOrder[i]].extensions) :
         calls[c].file.name \in {NameStem \o v : v \in CaseVariants(e)} =>
           Detects(c, SystemOrder[i])]_vars

\* C13, amended: for every system S and every extension E of its list, in
\* any spelling, detectSystem('name' + E) is a system that lists E, and it
\* is S when no system declared before S lists E.
DetectReturnsFirstListingSystem ==
  [][\A c \in DOMAIN calls, i \in 1..Len(SystemOrder) :
       \A e \in Range(SYSTEM_INFO[SystemOrder[i]].extensions) :
         calls[c].file.name \in {NameStem \o v : v \in CaseVariants(e)} =>
           /\ (calls[c].pc = "detect" /\ calls[c].system = "undefined"
                 /\ calls'[c].pc # "detect") =>
                \E j \in 1..i : /\ calls'[c].system = SystemOrder[j]
                                /\ Lists(j, e)
           /\ (\A j \in 1..(i - 1) : ~Lists(j, e)) =>
                Detects(c, SystemOrder[i])]_vars

\* C13 witness: addRom without a system has taken the system of
\* 'name.Z64', whose extension n64 lists in small letters, from detectSystem
DetectReturnsFirstListingSystemWitness ==
  \E c \in DOMAIN calls :
    /\ calls[c].file.name = NameStem \o <<".", "Z", "6", "4">>
    /\ calls[c].system = "n64"
    /\ calls[c].pc = "read"

\* e is the extension of the file name in small letters: a dot and the
\* text after the last dot of the name
IsLowercasedExtension(e, name) ==
  \E d \in DotsOf(name) :
    /\ \A k \in DotsOf(name) : k <= d
    /\ Len(e) = Len(name) - d + 1
    /\ e[1] = "."
    /\ \A k \in 1..(Len(name) - d) : e[k + 1] = LowerChar(name[d + k])

\* the extensions several systems list
SharedExtensions ==
  {e \in ListedExtensions :
     \E i, j \in 1..Len(SystemOrder) : i # j /\ Lists(i, e) /\ Lists(j, e)}

\* C14: when some system lists the lowercased extension of the file name,
\* detectSystem returns the system declared first among those that list
\* it; the extensions several systems list are .bin, .iso and .cue, and
\* each resolves to psx, declared before segaMD, segaCD and segaSaturn.
DetectFirstMatch ==
  [][\A c \in DOMAIN calls, e \in ListedExtensions :
       IsLowercasedExtension(e, calls[c].file.name) =>
         /\ \A i \in 1..Len(SystemOrder) :
              (Lists(i, e) /\ \A j \in 1..(i - 1) : ~Lists(j, e)) =>
                Detects(c, SystemOrder[i])
         /\ e \in SharedExtensions =>
              /\ e \in {<<".", "b", "i", "n">>, <<".", "i", "s", "o">>,
                        <<".", "c", "u", "e">>}
              /\ Detects(c, "psx")]_vars

\* C14 witness: addRom without a system has taken psx for 'name.BIN', an
\* extension four systems list, from detectSystem
DetectFirstMatchWitness ==
  \E c \in DOMAIN calls :
    /\ calls[c].file.name = NameStem \o <<".", "B", "I", "N">>
    /\ calls[c].system = "psx"
    /\ calls[c].pc = "read"

\* the file name has no extension, or one that no system lists
Unrecognized(name) ==
  ~ \E e \in ListedExtensions : IsLowercasedExtension(e, name)

\* C15: for a file name with an extension no system lists, or with no
\* extension at all, detectSystem returns null, and addRom called without
\* a system throws 'Unknown file type' there and adds no record to 'roms'.
UnrecognizedIsRejected ==
  [][\A c \in DOMAIN calls :
       /\ Unrecognized(calls[c].file.name) =>
            /\ Detects(c, NoSystem)
            /\ (calls[c].pc = "detect" /\ calls[c].system = "undefined"
                  /\ calls'[c].pc # "detect") =>
                 /\ calls'[c].pc = "failed"
                 /\ calls'[c].error = "Unknown file type"
       /\ (calls[c].pc = "failed" /\ calls[c].error = "Unknown file type") =>
            /\ roms' = roms
            /\ calls'[c].pc \in {"failed", "idle"}]_vars

\* C16: the store is opened successfully at most once, that is, no openDB
\* resolves when a connection is already memoized, also when calls overlap
\* before the first open has finished; a call that finds the connection
\* memoized does not open, and a call that finds none (none yet, or after
\* a failed open) does.
OpenedAtMostOnce ==
  [][\A c \in DOMAIN calls :
       /\ OpenDB(c) => ~db
       /\ (calls[c].pc = "init" /\ calls'[c].pc # "init") =>
            (calls'[c].pc = "open") = ~db]_vars

\* C17: the step of deleteRom(id) that removes the ROM record leaves, at
\* the suspension point that follows it (where a crash or a rejected
\* request ends the method), no save state whose romId is id.
DeleteRomIsAtomic ==
  [][\A c \in DOMAIN calls :
       (calls[c].op = "deleteRom" /\ DbGet(roms, calls[c].id) # NoRom
          /\ DbGet(roms', calls[c].id) = NoRom) =>
         ~ \E s \in saves' : s.romId = calls[c].id]_vars

\* C18: in every state of the store, also while saveSaveState calls for
\* one (romId, slot) pair overlap, no two save states have the same pair.
OnePerSlotAlways ==
  \A s, t \in saves : (s.romId = t.romId /\ s.slot = t.slot) => s.id = t.id

\* the last element of an array
Last(a) == a[Len(a)]

DeletedRomStaysDeleted ==
  [][/\ \A id \in 1..romKey :
          DbGet(roms, id) = NoRom => DbGet(roms', id) = NoRom
     /\ \A c \in DOMAIN calls :
          (calls[c].pc = "get" /\ calls'[c].pc # "get"
             /\ DbGet(roms, calls[c].id) = NoRom) =>
            (roms' = roms /\ calls'[c].pc \in {"done", "failed"})]_vars

====
